---- MODULE Spec2Model ----
(***************************************************************************)
(* Model of Opm::PiecewiseLinearTwoPhaseMaterial, the tabulated piecewise  *)
(* linear two-phase capillary pressure / relative permeability law.        *)
(*                                                                         *)
(* Every function of the class is static: a call reads its arguments (the  *)
(* parameter object with the three sample tables, the fluid state or a raw *)
(* saturation, the output container) and produces a return value, a filled *)
(* container, an exception or a failed assertion.  The state of the model  *)
(* is the most recent call with its arguments and its result.              *)
(*                                                                         *)
(* Scalar is "the type used for scalar floating point values": a Scalar is *)
(* modelled as a binary floating point number with a mantissa of Prec bits *)
(* and an unbounded exponent, every arithmetic operation rounding its      *)
(* exact result to the nearest representable number, ties to even.         *)
(***************************************************************************)
EXTENDS Integers, FiniteSets, Sequences, TLC

(***************************************************************************)
(* Bounds of the model.                                                    *)
(***************************************************************************)
\* number of mantissa bits of a Scalar
Prec == 3
\* largest number of sampling points of a table; the knots lie on the grid
\* 1/4, 2/4, ..., MaxKnots/4
MaxKnots == 3
\* the largest number of sampling points of a table whose search is followed
\* statement by statement
MaxSearchKnots == 5

(***************************************************************************)
(* Scalar: <<m, e>> stands for m * 2^e, with m odd, or <<0, 0>> for zero.  *)
(* NaN stands for the non-finite result of a division by zero.             *)
(***************************************************************************)
NaN == <<0, 1>>
NoValue == <<0, -1>>

RECURSIVE Norm(_, _)
Norm(m, e) ==
    IF m = 0 THEN <<0, 0>>
    ELSE IF m % 2 = 0 THEN Norm(m \div 2, e + 1)
    ELSE <<m, e>>

Abs(m) == IF m < 0 THEN -m ELSE m
Sgn(m) == IF m < 0 THEN -1 ELSE 1

RECURSIVE Shift(_, _)
\* the least s with a \div 2^s < 2^Prec
Shift(a, s) == IF a \div (2^s) < 2^Prec THEN s ELSE Shift(a, s + 1)

\* m * 2^e rounded to Prec mantissa bits, to nearest, ties to even
Round(m, e) ==
    LET a == Abs(m)
        s == Shift(a, 0)
        q == a \div (2^s)
        r == a % (2^s)
        half == IF s = 0 THEN 0 ELSE 2^(s - 1)
        up == s > 0 /\ (r > half \/ (r = half /\ q % 2 = 1))
    IN  Norm(Sgn(m) * (IF up THEN q + 1 ELSE q), e + s)

IsNaN(a) == a = NaN
Min(i, j) == IF i < j THEN i ELSE j

\* the integer n with a = n * 2^e, for e no larger than a's exponent
Aligned(a, e) == a[1] * 2^(a[2] - e)

Neg(a) == IF IsNaN(a) THEN NaN ELSE <<-a[1], a[2]>>

Add(a, b) ==
    IF IsNaN(a) \/ IsNaN(b) THEN NaN
    ELSE LET e == Min(a[2], b[2])
         IN  Round(Aligned(a, e) + Aligned(b, e), e)

Sub(a, b) == Add(a, Neg(b))

Mul(a, b) ==
    IF IsNaN(a) \/ IsNaN(b) THEN NaN
    ELSE Round(a[1] * b[1], a[2] + b[2])

RECURSIVE Scale(_, _, _)
\* the least k with n * 2^k >= d * 2^(Prec+1)
Scale(n, d, k) == IF n * 2^k >= d * 2^(Prec + 1) THEN k ELSE Scale(n, d, k + 1)

Div(a, b) ==
    IF IsNaN(a) \/ IsNaN(b) \/ b[1] = 0 THEN NaN
    ELSE IF a[1] = 0 THEN <<0, 0>>
    ELSE LET n == Abs(a[1])
             d == Abs(b[1])
             k == Scale(n, d, 0)
             q == (n * 2^k) \div d
             sticky == IF (n * 2^k) % d = 0 THEN 0 ELSE 1
         IN  Round(Sgn(a[1]) * Sgn(b[1]) * (2 * q + sticky),
                   a[2] - b[2] - k - 1)

Less(a, b) ==
    /\ ~IsNaN(a)
    /\ ~IsNaN(b)
    /\ LET e == Min(a[2], b[2]) IN Aligned(a, e) < Aligned(b, e)

Greater(a, b) == Less(b, a)
LessEq(a, b) == ~IsNaN(a) /\ ~IsNaN(b) /\ ~Less(b, a)
GreaterEq(a, b) == LessEq(b, a)

Zero == <<0, 0>>
One == <<1, 0>>
\* k/4
Quarter(k) == Norm(k, -2)
\* k/8
Eighth(k) == Norm(k, -3)

(***************************************************************************)
(* Traits: TwoPhaseMaterialTraits<Scalar, 0, 1>.                           *)
(***************************************************************************)
numPhases == 2
wPhaseIdx == 0
nPhaseIdx == 1
PhaseIdxs == 0 .. (numPhases - 1)

(***************************************************************************)
(* SamplePoints: a vector of (first, second) pairs, indexed from 0.        *)
(***************************************************************************)
size(samples) == Cardinality(DOMAIN samples)
front(samples) == samples[0]
back(samples) == samples[size(samples) - 1]

\* the y-values of the sampling points: 0, 1 and a number next to which 1 is
\* below the rounding unit
Big == Norm(2^Prec + 2, 0)
YGrid == {Zero, One, Big}
XIdx == 1 .. MaxKnots

\* the members of the set S of integers in increasing order, indexed from 0
Ascending(S) ==
    CHOOSE f \in [0 .. (Cardinality(S) - 1) -> S] :
        \A i, j \in DOMAIN f : i < j => f[i] < f[j]

\* the tables with 2 .. MaxKnots sampling points, strictly increasing in x
Tables ==
    UNION { LET xs == Ascending(S)
            IN  { [i \in DOMAIN xs |-> [first |-> Quarter(xs[i]), second |-> ys[i]]] :
                    ys \in [DOMAIN xs -> YGrid] } :
            S \in { T \in SUBSET XIdx : Cardinality(T) >= 2 } }

\* the table (1/4, 0), (3/4, 1)
DefaultSamples ==
    [i \in 0 .. 1 |-> IF i = 0 THEN [first |-> Quarter(1), second |-> Zero]
                      ELSE [first |-> Quarter(3), second |-> One]]

\* PiecewiseLinearTwoPhaseMaterialParams: the three tables.  The functions
\* that read one table do not read the others, so the parameter objects vary
\* one table at a time.
ParamsOf(pc, kw, kn) == [pcnwSamples |-> pc, krwSamples |-> kw, krnSamples |-> kn]
ParamSet ==
    { ParamsOf(t, DefaultSamples, DefaultSamples) : t \in Tables }
    \cup { ParamsOf(DefaultSamples, t, DefaultSamples) : t \in Tables }
    \cup { ParamsOf(DefaultSamples, DefaultSamples, t) : t \in Tables }

\* the saturations handed to the law: inside, on the edge of and outside
\* both [0, 1] and the tables' domains
Sats == {Quarter(-1), Zero, Quarter(1), Eighth(3), Quarter(2), Quarter(3), One, Quarter(5)}

\* FluidState: only saturation(phaseIdx) is read; the two saturations need
\* not add up to 1
FluidStates ==
    { [i \in PhaseIdxs |-> IF i = wPhaseIdx THEN a ELSE b] :
        a \in {Zero, Quarter(1), Eighth(3), Quarter(2), One},
        b \in {Quarter(1), Quarter(2), One} }
saturation(fs, phaseIdx) == fs[phaseIdx]

\* the output containers handed to the array-filling functions
Containers == { [i \in PhaseIdxs |-> c] : c \in {One, Big} }
\* the component indices handed to the mole fraction derivatives
CompIdxs == 0 .. 1

(***************************************************************************)
(* The result of a call: a returned value, the std::logic_error thrown by  *)
(* OPM_THROW, or a failed assert().  ndebug tells whether the build        *)
(* defines NDEBUG, that is, compiles the assertions out.  search is the    *)
(* evaluator's position when a call is followed statement by statement.    *)
(***************************************************************************)
VARIABLES ndebug, op, argParams, argFs, argS, argPhaseIdx, argCompIdx,
          argValues, values, ret, outcome, search

vars == <<ndebug, op, argParams, argFs, argS, argPhaseIdx, argCompIdx,
          argValues, values, ret, outcome, search>>

Return(v) == [outcome |-> "returned", value |-> v]
LogicError == [outcome |-> "logic_error", value |-> NoValue]
AssertionFailed == [outcome |-> "assertion_failed", value |-> NoValue]
\* assert(cond); return v;
Checked(cond, v) == IF ~ndebug /\ ~cond THEN AssertionFailed ELSE Return(v)

(***************************************************************************)
(* The private evaluator.                                                  *)
(***************************************************************************)
RECURSIVE Bisection_TieRight(_, _, _, _)
\* the bisection comparing with <= instead of <
Bisection_TieRight(samples, x, lowIdx, highIdx) ==
    IF lowIdx + 1 < highIdx
    THEN LET curIdx == (lowIdx + highIdx) \div 2
         IN  IF LessEq(samples[curIdx].first, x)
             THEN Bisection_TieRight(samples, x, curIdx, highIdx)
             ELSE Bisection_TieRight(samples, x, lowIdx, curIdx)
    ELSE lowIdx

RECURSIVE Bisection(_, _, _, _)
\* the while loop of findSegmentIndex_
Bisection(samples, x, lowIdx, highIdx) ==
    IF lowIdx + 1 < highIdx
    THEN LET curIdx == (lowIdx + highIdx) \div 2
         IN  IF Less(samples[curIdx].first, x)
             THEN Bisection(samples, x, curIdx, highIdx)
             ELSE Bisection(samples, x, lowIdx, curIdx)
    ELSE lowIdx

\* findSegmentIndex_ returning n instead of n - 1 beyond the last knot
findSegmentIndex_PastEnd(samples, x) ==
    LET n == size(samples) - 1
    IN  IF Less(samples[n].first, x) THEN n
        ELSE IF Greater(samples[0].first, x) THEN 0
        ELSE Bisection(samples, x, 0, n)

\* the index returned; its assert(n >= 1) is part of the callers' conditions
findSegmentIndex_(samples, x) ==
    LET n == size(samples) - 1
    IN  IF Less(samples[n].first, x) THEN n - 1
        ELSE IF Greater(samples[0].first, x) THEN 0
        ELSE Bisection(samples, x, 0, n)

\* the assertions of eval_ and of the findSegmentIndex_ it calls hold
evalAsserts_(samples, x) ==
    LET segIdx == findSegmentIndex_(samples, x)
    IN  /\ size(samples) - 1 >= 1
        /\ (GreaterEq(x, front(samples).first) /\ LessEq(x, back(samples).first))
              => /\ LessEq(samples[segIdx].first, x)
                 /\ GreaterEq(samples[segIdx + 1].first, x)

\* eval_ with alpha taken from x instead of x - x[segIdx]
eval_NoOffset(samples, x) ==
    LET segIdx == findSegmentIndex_(samples, x)
        alpha == Div(x, Sub(samples[segIdx + 1].first, samples[segIdx].first))
    IN  Checked(evalAsserts_(samples, x),
                Add(samples[segIdx].second,
                    Mul(Sub(samples[segIdx + 1].second, samples[segIdx].second), alpha)))

eval_(samples, x) ==
    LET segIdx == findSegmentIndex_(samples, x)
        alpha == Div(Sub(x, samples[segIdx].first),
                     Sub(samples[segIdx + 1].first, samples[segIdx].first))
    IN  Checked(evalAsserts_(samples, x),
                Add(samples[segIdx].second,
                    Mul(Sub(samples[segIdx + 1].second, samples[segIdx].second), alpha)))

\* evalDeriv_ returning the difference of the y-values, undivided
evalDeriv_NoDivide(samples, x) ==
    LET segIdx == findSegmentIndex_(samples, x)
    IN  Checked(size(samples) - 1 >= 1,
                Sub(samples[segIdx + 1].second, samples[segIdx].second))

evalDeriv_(samples, x) ==
    LET segIdx == findSegmentIndex_(samples, x)
    IN  Checked(size(samples) - 1 >= 1,
                Div(Sub(samples[segIdx + 1].second, samples[segIdx].second),
                    Sub(samples[segIdx + 1].first, samples[segIdx].first)))

(***************************************************************************)
(* The two-phase saturation API and its fluid state overloads.             *)
(* dKrw_dSw and dKrn_dSw call twoPhaseSatDkrw_dSw and twoPhaseSatDkrn_dSw, *)
(* which the class does not declare: they cannot be instantiated and are   *)
(* no operations of the model.                                             *)
(***************************************************************************)
twoPhaseSatPcnw(params, satW) == evalDeriv_(params.pcnwSamples, satW)

pcnw(params, fs) == twoPhaseSatPcnw(params, saturation(fs, wPhaseIdx))

\* Sw as an inverse that returns a saturation instead of throwing
Sw_ReturnsValue(params, fs) == Return(saturation(fs, wPhaseIdx))

Sw(params, fs) == LogicError

twoPhaseSatSw(params, pC) == LogicError

Sn(params, fs) ==
    LET r == Sw(params, fs)
    IN  IF r.outcome = "returned" THEN Return(Sub(One, r.value)) ELSE r

twoPhaseSatSn(params, pC) ==
    LET r == twoPhaseSatSw(params, pC)
    IN  IF r.outcome = "returned" THEN Return(Sub(One, r.value)) ELSE r

twoPhaseSatDPcnw_dSw(params, satW) ==
    IF ~ndebug /\ ~(Less(Zero, satW) /\ Less(satW, One))
    THEN AssertionFailed
    ELSE evalDeriv_(params.pcnwSamples, satW)

dPcnw_dSw(params, fs) == twoPhaseSatDPcnw_dSw(params, saturation(fs, wPhaseIdx))

twoPhaseSatKrw(params, satW) ==
    IF Less(satW, front(params.krwSamples).first)
    THEN Return(front(params.krwSamples).second)
    ELSE IF Greater(satW, back(params.krwSamples).first)
    THEN Return(back(params.krwSamples).second)
    ELSE eval_(params.krwSamples, satW)

krw(params, fs) == twoPhaseSatKrw(params, saturation(fs, wPhaseIdx))

twoPhaseSatDKrw_dSw(params, satW) ==
    IF Less(satW, front(params.krwSamples).first) THEN Return(Zero)
    ELSE IF Greater(satW, back(params.krwSamples).first) THEN Return(Zero)
    ELSE evalDeriv_(params.krwSamples, satW)

\* twoPhaseSatKrn without the clamping to the table's end points
twoPhaseSatKrn_Extrapolates(params, satW) == eval_(params.krnSamples, satW)

twoPhaseSatKrn(params, satW) ==
    IF Less(satW, front(params.krnSamples).first)
    THEN Return(front(params.krnSamples).second)
    ELSE IF Greater(satW, back(params.krnSamples).first)
    THEN Return(back(params.krnSamples).second)
    ELSE eval_(params.krnSamples, satW)

krn(params, fs) == twoPhaseSatKrn(params, Sub(One, saturation(fs, nPhaseIdx)))

twoPhaseSatDKrn_dSw(params, satW) ==
    IF Less(satW, front(params.krwSamples).first) THEN Return(Zero)
    ELSE IF Greater(satW, back(params.krwSamples).first) THEN Return(Zero)
    ELSE evalDeriv_(params.krnSamples, satW)

(***************************************************************************)
(* The array-filling API: the result's value is the container after the    *)
(* call.                                                                   *)
(***************************************************************************)
capillaryPressures(vals, params, fs) ==
    LET r == pcnw(params, fs)
    IN  IF r.outcome = "returned"
        THEN Return([vals EXCEPT ![wPhaseIdx] = Zero, ![nPhaseIdx] = r.value])
        ELSE r

saturations(vals, params, fs) == LogicError

relativePermeabilities(vals, params, fs) ==
    LET rw == krw(params, fs)
        rn == krn(params, fs)
    IN  IF rw.outcome # "returned" THEN rw
        ELSE IF rn.outcome # "returned" THEN rn
        ELSE Return([vals EXCEPT ![wPhaseIdx] = rw.value, ![nPhaseIdx] = rn.value])

\* dCapillaryPressures_dSaturation without the test of the axis
dCapillaryPressures_dSaturation_AnyAxis(vals, params, state, satPhaseIdx) ==
    LET r == evalDeriv_(params.pcnwSamples, saturation(state, wPhaseIdx))
    IN  IF r.outcome = "returned"
        THEN Return([vals EXCEPT ![wPhaseIdx] = Zero, ![nPhaseIdx] = r.value])
        ELSE r

dCapillaryPressures_dSaturation(vals, params, state, satPhaseIdx) ==
    LET cleared == [vals EXCEPT ![wPhaseIdx] = Zero, ![nPhaseIdx] = Zero]
        r == evalDeriv_(params.pcnwSamples, saturation(state, wPhaseIdx))
    IN  IF satPhaseIdx = wPhaseIdx
        THEN IF r.outcome = "returned"
             THEN Return([cleared EXCEPT ![nPhaseIdx] = r.value])
             ELSE r
        ELSE Return(cleared)

\* the zeroing loop stopping one phase short
ZeroFill_SkipsLast(vals) ==
    [i \in DOMAIN vals |-> IF 0 <= i /\ i < numPhases - 1 THEN Zero ELSE vals[i]]

\* for (pcPhaseIdx = 0; pcPhaseIdx < numPhases; ++pcPhaseIdx) values[pcPhaseIdx] = 0.0
ZeroFill(vals) == [i \in DOMAIN vals |-> IF 0 <= i /\ i < numPhases THEN Zero ELSE vals[i]]

dCapillaryPressures_dPressure(vals, params, state, pPhaseIdx) == Return(ZeroFill(vals))

dCapillaryPressures_dTemperature(vals, params, state) == Return(ZeroFill(vals))

dCapillaryPressures_dMoleFraction(vals, params, state, phaseIdx, compIdx) == Return(ZeroFill(vals))

dRelativePermeabilities_dSaturation(vals, params, state, satPhaseIdx) ==
    IF satPhaseIdx = wPhaseIdx
    THEN LET r == evalDeriv_(params.krwSamples, saturation(state, wPhaseIdx))
         IN  IF r.outcome = "returned"
             THEN Return([vals EXCEPT ![wPhaseIdx] = r.value, ![nPhaseIdx] = Zero])
             ELSE r
    ELSE LET r == evalDeriv_(params.krwSamples, Sub(One, saturation(state, nPhaseIdx)))
         IN  IF r.outcome = "returned"
             THEN Return([vals EXCEPT ![wPhaseIdx] = Zero, ![nPhaseIdx] = Neg(r.value)])
             ELSE r

dRelativePermeabilities_dPressure(vals, params, state, pPhaseIdx) == Return(ZeroFill(vals))

dRelativePermeabilities_dTemperature(vals, params, state) == Return(ZeroFill(vals))

dRelativePermeabilities_dMoleFraction(vals, params, state, phaseIdx, compIdx) == Return(ZeroFill(vals))

(***************************************************************************)
(* The calls.  A call draws its arguments, runs the function and records   *)
(* the arguments and the result; the caller then takes the result and is   *)
(* free to call again, unless a failed assertion has aborted the process.  *)
(***************************************************************************)
NoState == [i \in PhaseIdxs |-> NoValue]
NoContainer == [i \in PhaseIdxs |-> NoValue]
\* the index recorded for a call without an index argument
NoIdx == 0 - 1

\* no evaluation is being followed
NoSearch ==
    [pc |-> "idle", caller |-> "none", samples |-> DefaultSamples, x |-> NoValue,
     lowIdx |-> NoIdx, highIdx |-> NoIdx, segIdx |-> NoIdx, value |-> NoValue,
     outcome |-> "none"]

Init ==
    /\ ndebug \in BOOLEAN
    /\ search = NoSearch
    /\ op = "none"
    /\ argParams = ParamsOf(DefaultSamples, DefaultSamples, DefaultSamples)
    /\ argFs = NoState
    /\ argS = NoValue
    /\ argPhaseIdx = NoIdx
    /\ argCompIdx = NoIdx
    /\ argValues = NoContainer
    /\ values = NoContainer
    /\ ret = NoValue
    /\ outcome = "none"

\* a call, made when no result is pending, of a function that returns a Scalar
ScalarCall(name, p, f, s, r) ==
    /\ op' = name
    /\ argParams' = p
    /\ argFs' = f
    /\ argS' = s
    /\ argPhaseIdx' = NoIdx
    /\ argCompIdx' = NoIdx
    /\ argValues' = NoContainer
    /\ values' = NoContainer
    /\ ret' = r.value
    /\ outcome' = r.outcome
    /\ UNCHANGED <<ndebug, search>>

\* a call of a function that fills the container vin; a call that throws
\* leaves the container as it was
ArrayCall(name, p, f, ph, c, vin, r) ==
    /\ op' = name
    /\ argParams' = p
    /\ argFs' = f
    /\ argS' = NoValue
    /\ argPhaseIdx' = ph
    /\ argCompIdx' = c
    /\ argValues' = vin
    /\ values' = IF r.outcome = "returned" THEN r.value ELSE vin
    /\ ret' = NoValue
    /\ outcome' = r.outcome
    /\ UNCHANGED <<ndebug, search>>

Call_pcnw ==
    /\ op = "none"
    /\ \E p \in ParamSet, f \in FluidStates :
          ScalarCall("pcnw", p, f, NoValue, pcnw(p, f))

Call_Sw ==
    /\ op = "none"
    /\ \E p \in ParamSet, f \in FluidStates :
          ScalarCall("Sw", p, f, NoValue, Sw(p, f))

Call_Sn ==
    /\ op = "none"
    /\ \E p \in ParamSet, f \in FluidStates :
          ScalarCall("Sn", p, f, NoValue, Sn(p, f))

Call_dPcnw_dSw ==
    /\ op = "none"
    /\ \E p \in ParamSet, f \in FluidStates :
          ScalarCall("dPcnw_dSw", p, f, NoValue, dPcnw_dSw(p, f))

Call_krw ==
    /\ op = "none"
    /\ \E p \in ParamSet, f \in FluidStates :
          ScalarCall("krw", p, f, NoValue, krw(p, f))

Call_krn ==
    /\ op = "none"
    /\ \E p \in ParamSet, f \in FluidStates :
          ScalarCall("krn", p, f, NoValue, krn(p, f))

Call_twoPhaseSatPcnw ==
    /\ op = "none"
    /\ \E p \in ParamSet, s \in Sats :
          ScalarCall("twoPhaseSatPcnw", p, NoState, s, twoPhaseSatPcnw(p, s))

Call_twoPhaseSatSw ==
    /\ op = "none"
    /\ \E p \in ParamSet, s \in Sats :
          ScalarCall("twoPhaseSatSw", p, NoState, s, twoPhaseSatSw(p, s))

Call_twoPhaseSatSn ==
    /\ op = "none"
    /\ \E p \in ParamSet, s \in Sats :
          ScalarCall("twoPhaseSatSn", p, NoState, s, twoPhaseSatSn(p, s))

Call_twoPhaseSatDPcnw_dSw ==
    /\ op = "none"
    /\ \E p \in ParamSet, s \in Sats :
          ScalarCall("twoPhaseSatDPcnw_dSw", p, NoState, s, twoPhaseSatDPcnw_dSw(p, s))

Call_twoPhaseSatKrw ==
    /\ op = "none"
    /\ \E p \in ParamSet, s \in Sats :
          ScalarCall("twoPhaseSatKrw", p, NoState, s, twoPhaseSatKrw(p, s))

Call_twoPhaseSatDKrw_dSw ==
    /\ op = "none"
    /\ \E p \in ParamSet, s \in Sats :
          ScalarCall("twoPhaseSatDKrw_dSw", p, NoState, s, twoPhaseSatDKrw_dSw(p, s))

Call_twoPhaseSatKrn ==
    /\ op = "none"
    /\ \E p \in ParamSet, s \in Sats :
          ScalarCall("twoPhaseSatKrn", p, NoState, s, twoPhaseSatKrn(p, s))

Call_twoPhaseSatDKrn_dSw ==
    /\ op = "none"
    /\ \E p \in ParamSet, s \in Sats :
          ScalarCall("twoPhaseSatDKrn_dSw", p, NoState, s, twoPhaseSatDKrn_dSw(p, s))

Call_capillaryPressures ==
    /\ op = "none"
    /\ \E p \in ParamSet, f \in FluidStates, vin \in Containers :
          ArrayCall("capillaryPressures", p, f, NoIdx, NoIdx, vin, capillaryPressures(vin, p, f))

Call_saturations ==
    /\ op = "none"
    /\ \E p \in ParamSet, f \in FluidStates, vin \in Containers :
          ArrayCall("saturations", p, f, NoIdx, NoIdx, vin, saturations(vin, p, f))

Call_relativePermeabilities ==
    /\ op = "none"
    /\ \E p \in ParamSet, f \in FluidStates, vin \in Containers :
          ArrayCall("relativePermeabilities", p, f, NoIdx, NoIdx, vin, relativePermeabilities(vin, p, f))

Call_dCapillaryPressures_dTemperature ==
    /\ op = "none"
    /\ \E p \in ParamSet, f \in FluidStates, vin \in Containers :
          ArrayCall("dCapillaryPressures_dTemperature", p, f, NoIdx, NoIdx, vin, dCapillaryPressures_dTemperature(vin, p, f))

Call_dRelativePermeabilities_dTemperature ==
    /\ op = "none"
    /\ \E p \in ParamSet, f \in FluidStates, vin \in Containers :
          ArrayCall("dRelativePermeabilities_dTemperature", p, f, NoIdx, NoIdx, vin, dRelativePermeabilities_dTemperature(vin, p, f))

Call_dCapillaryPressures_dSaturation ==
    /\ op = "none"
    /\ \E p \in ParamSet, f \in FluidStates, ph \in PhaseIdxs, vin \in Containers :
          ArrayCall("dCapillaryPressures_dSaturation", p, f, ph, NoIdx, vin, dCapillaryPressures_dSaturation(vin, p, f, ph))

Call_dCapillaryPressures_dPressure ==
    /\ op = "none"
    /\ \E p \in ParamSet, f \in FluidStates, ph \in PhaseIdxs, vin \in Containers :
          ArrayCall("dCapillaryPressures_dPressure", p, f, ph, NoIdx, vin, dCapillaryPressures_dPressure(vin, p, f, ph))

Call_dRelativePermeabilities_dSaturation ==
    /\ op = "none"
    /\ \E p \in ParamSet, f \in FluidStates, ph \in PhaseIdxs, vin \in Containers :
          ArrayCall("dRelativePermeabilities_dSaturation", p, f, ph, NoIdx, vin, dRelativePermeabilities_dSaturation(vin, p, f, ph))

Call_dRelativePermeabilities_dPressure ==
    /\ op = "none"
    /\ \E p \in ParamSet, f \in FluidStates, ph \in PhaseIdxs, vin \in Containers :
          ArrayCall("dRelativePermeabilities_dPressure", p, f, ph, NoIdx, vin, dRelativePermeabilities_dPressure(vin, p, f, ph))

Call_dCapillaryPressures_dMoleFraction ==
    /\ op = "none"
    /\ \E p \in ParamSet, f \in FluidStates, ph \in PhaseIdxs, c \in CompIdxs, vin \in Containers :
          ArrayCall("dCapillaryPressures_dMoleFraction", p, f, ph, c, vin, dCapillaryPressures_dMoleFraction(vin, p, f, ph, c))

Call_dRelativePermeabilities_dMoleFraction ==
    /\ op = "none"
    /\ \E p \in ParamSet, f \in FluidStates, ph \in PhaseIdxs, c \in CompIdxs, vin \in Containers :
          ArrayCall("dRelativePermeabilities_dMoleFraction", p, f, ph, c, vin, dRelativePermeabilities_dMoleFraction(vin, p, f, ph, c))

\* the caller takes the result of the call
Resume ==
    /\ op # "none"
    /\ outcome # "assertion_failed"
    /\ op' = "none"
    /\ argParams' = ParamsOf(DefaultSamples, DefaultSamples, DefaultSamples)
    /\ argFs' = NoState
    /\ argS' = NoValue
    /\ argPhaseIdx' = NoIdx
    /\ argCompIdx' = NoIdx
    /\ argValues' = NoContainer
    /\ values' = NoContainer
    /\ ret' = NoValue
    /\ outcome' = "none"
    /\ UNCHANGED <<ndebug, search>>

Next ==
    \/ Resume
    \/ Call_pcnw
    \/ Call_Sw
    \/ Call_Sn
    \/ Call_dPcnw_dSw
    \/ Call_krw
    \/ Call_krn
    \/ Call_twoPhaseSatPcnw
    \/ Call_twoPhaseSatSw
    \/ Call_twoPhaseSatSn
    \/ Call_twoPhaseSatDPcnw_dSw
    \/ Call_twoPhaseSatKrw
    \/ Call_twoPhaseSatDKrw_dSw
    \/ Call_twoPhaseSatKrn
    \/ Call_twoPhaseSatDKrn_dSw
    \/ Call_capillaryPressures
    \/ Call_saturations
    \/ Call_relativePermeabilities
    \/ Call_dCapillaryPressures_dTemperature
    \/ Call_dRelativePermeabilities_dTemperature
    \/ Call_dCapillaryPressures_dSaturation
    \/ Call_dCapillaryPressures_dPressure
    \/ Call_dRelativePermeabilities_dSaturation
    \/ Call_dRelativePermeabilities_dPressure
    \/ Call_dCapillaryPressures_dMoleFraction
    \/ Call_dRelativePermeabilities_dMoleFraction

Spec == Init /\ [][Next]_vars

(***************************************************************************)
(* What the properties speak of: the table read by a call, the saturation  *)
(* it is read at, and linear interpolation stated on the table itself.     *)
(***************************************************************************)
LastIdx(samples) == size(samples) - 1
Segments(samples) == 0 .. (LastIdx(samples) - 1)

\* (y[i+1] - y[i]) / (x[i+1] - x[i])
Slope(samples, i) ==
    Div(Sub(samples[i + 1].second, samples[i].second),
        Sub(samples[i + 1].first, samples[i].first))

\* y[i] + (y[i+1] - y[i]) * ((x - x[i]) / (x[i+1] - x[i]))
Interp(samples, i, x) ==
    Add(samples[i].second,
        Mul(Sub(samples[i + 1].second, samples[i].second),
            Div(Sub(x, samples[i].first), Sub(samples[i + 1].first, samples[i].first))))

Below(samples, x) == Less(x, samples[0].first)
Above(samples, x) == Less(samples[LastIdx(samples)].first, x)
Inside(samples, x) == ~Below(samples, x) /\ ~Above(samples, x)

\* segment i holds x between its knots
Brackets(samples, i, x) ==
    /\ i \in Segments(samples)
    /\ LessEq(samples[i].first, x)
    /\ LessEq(x, samples[i + 1].first)

\* segment i is the one to interpolate or extrapolate x on
SegmentFor(samples, i, x) ==
    \/ Below(samples, x) /\ i = 0
    \/ Above(samples, x) /\ i = LastIdx(samples) - 1
    \/ Brackets(samples, i, x)

\* the wetting saturation of the call: the Scalar argument, or the one read
\* from the fluid state
CallSw == IF argS # NoValue THEN argS ELSE saturation(argFs, wPhaseIdx)
\* the wetting coordinate 1 - Sn of the call's fluid state
CallOneMinusSn == Sub(One, saturation(argFs, nPhaseIdx))

\* C1: twoPhaseSatPcnw(params, Sw), and pcnw(params, state) with Sw read from
\* the state, return the value of the capillary pressure table linearly
\* interpolated at Sw on the segment holding Sw, and linearly extrapolated
\* along the first or the last segment, without clamping, for Sw below the
\* first or above the last knot.
C1_PcnwInterpolates ==
    op \in {"twoPhaseSatPcnw", "pcnw"} =>
        /\ outcome = "returned"
        /\ \E i \in Segments(argParams.pcnwSamples) :
              /\ SegmentFor(argParams.pcnwSamples, i, CallSw)
              /\ ret = Interp(argParams.pcnwSamples, i, CallSw)

\* the table a relative permeability function of the two-phase saturation API
\* reads
KrTable == IF op \in {"twoPhaseSatKrw", "twoPhaseSatDKrw_dSw"}
           THEN argParams.krwSamples ELSE argParams.krnSamples

\* C2: twoPhaseSatKrw and twoPhaseSatKrn return the first knot's y for every
\* Sw below the first knot of their table, the last knot's y for every Sw
\* above its last knot, and the linear interpolation of the table inside its
\* domain.
C2_KrClampsOutsideInterpolatesInside ==
    op \in {"twoPhaseSatKrw", "twoPhaseSatKrn"} =>
        /\ outcome = "returned"
        /\ Below(KrTable, argS) => ret = front(KrTable).second
        /\ Above(KrTable, argS) => ret = back(KrTable).second
        /\ Inside(KrTable, argS) =>
              \E i \in Segments(KrTable) :
                  Brackets(KrTable, i, argS) /\ ret = Interp(KrTable, i, argS)

\* C2 witness: twoPhaseSatKrn has returned the last knot's y for an Sw above
\* the last knot of a table whose last segment is not flat.
C2_Witness ==
    /\ op = "twoPhaseSatKrn"
    /\ outcome = "returned"
    /\ Above(argParams.krnSamples, argS)
    /\ Slope(argParams.krnSamples, LastIdx(argParams.krnSamples) - 1) # Zero
    /\ ret = back(argParams.krnSamples).second

\* C3: every relative permeability saturation derivative is exactly 0 when
\* the saturation lies below the first or above the last knot of the table
\* being differentiated: twoPhaseSatDKrw_dSw on the krw table,
\* twoPhaseSatDKrn_dSw on the krn table, and the entries filled by
\* dRelativePermeabilities_dSaturation (the wetting entry from the krw table
\* at Sw, the non-wetting entry from the krn table at 1 - Sn).
C3_KrDerivativeZeroOutside ==
    /\ op \in {"twoPhaseSatDKrw_dSw", "twoPhaseSatDKrn_dSw"} /\ ~Inside(KrTable, argS)
          => outcome = "returned" /\ ret = Zero
    /\ op = "dRelativePermeabilities_dSaturation" /\ argPhaseIdx = wPhaseIdx
            /\ ~Inside(argParams.krwSamples, CallSw)
          => outcome = "returned" /\ values[wPhaseIdx] = Zero
    /\ op = "dRelativePermeabilities_dSaturation" /\ argPhaseIdx = nPhaseIdx
            /\ ~Inside(argParams.krnSamples, CallOneMinusSn)
          => outcome = "returned" /\ values[nPhaseIdx] = Zero

\* C4: dRelativePermeabilities_dSaturation fills each phase's entry from that
\* phase's own table: for the wetting axis the wetting entry is the slope of
\* the krw table at Sw and the non-wetting entry is 0; for the non-wetting
\* axis the wetting entry is 0 and the non-wetting entry is the negated slope
\* of the krn table at the wetting coordinate 1 - Sn.
C4_KrDerivativeOwnTable ==
    op = "dRelativePermeabilities_dSaturation" =>
        /\ outcome = "returned"
        /\ argPhaseIdx = wPhaseIdx =>
              /\ \E i \in Segments(argParams.krwSamples) :
                    /\ SegmentFor(argParams.krwSamples, i, CallSw)
                    /\ values[wPhaseIdx] = Slope(argParams.krwSamples, i)
              /\ values[nPhaseIdx] = Zero
        /\ argPhaseIdx = nPhaseIdx =>
              /\ values[wPhaseIdx] = Zero
              /\ \E i \in Segments(argParams.krnSamples) :
                    /\ SegmentFor(argParams.krnSamples, i, CallOneMinusSn)
                    /\ values[nPhaseIdx] = Neg(Slope(argParams.krnSamples, i))

ZeroDerivatives ==
    {"dCapillaryPressures_dPressure", "dCapillaryPressures_dTemperature",
     "dCapillaryPressures_dMoleFraction", "dRelativePermeabilities_dPressure",
     "dRelativePermeabilities_dTemperature", "dRelativePermeabilities_dMoleFraction"}

\* C5: the derivatives with respect to pressure, temperature and mole
\* fraction, of the capillary pressures and of the relative permeabilities,
\* set every one of the numPhases entries of the container to exactly 0,
\* whatever the arguments and whatever the container held.
C5_ZeroDerivatives ==
    op \in ZeroDerivatives =>
        /\ outcome = "returned"
        /\ \A i \in 0 .. (numPhases - 1) : values[i] = Zero

\* C5 witness: a mole fraction derivative has been taken into a container
\* that held no zero, for a state with a nonzero wetting saturation.
C5_Witness ==
    /\ op = "dRelativePermeabilities_dMoleFraction"
    /\ \A i \in PhaseIdxs : argValues[i] # Zero /\ values[i] = Zero
    /\ saturation(argFs, wPhaseIdx) # Zero

\* C6: Sw, twoPhaseSatSw, Sn, twoPhaseSatSn and saturations() end in the
\* unsupported-operation error (std::logic_error) for every input: none
\* returns a value and none writes an entry of the container.
C6_UnsupportedOperations ==
    op \in {"Sw", "twoPhaseSatSw", "Sn", "twoPhaseSatSn", "saturations"} =>
        /\ outcome = "logic_error"
        /\ ret = NoValue
        /\ values = argValues

\* C6 witness: Sn has been called for a fluid state and has ended in the
\* error without a value.
C6_Witness ==
    /\ op = "Sn"
    /\ argFs \in FluidStates
    /\ outcome = "logic_error"
    /\ ret = NoValue

ValueEntryPoints ==
    {"twoPhaseSatPcnw", "pcnw", "twoPhaseSatDPcnw_dSw", "dPcnw_dSw",
     "twoPhaseSatKrw", "krw", "twoPhaseSatKrn", "krn",
     "twoPhaseSatDKrw_dSw", "twoPhaseSatDKrn_dSw",
     "capillaryPressures", "relativePermeabilities",
     "dCapillaryPressures_dSaturation", "dRelativePermeabilities_dSaturation"}
    \cup ZeroDerivatives

\* C7: no value- or derivative-returning entry point raises an error or fails
\* an assertion, for any saturation, Sw <= 0, Sw >= 1 and saturations outside
\* the tables' domains included: each returns.
C7_NoEntryPointFails ==
    op \in ValueEntryPoints => outcome = "returned"

\* segment i is the one the search selects for x in a table with strictly
\* increasing knots: the last one above the last knot, the first one up to
\* the first knot, else the one with x[i] < x <= x[i+1]
Selects(samples, i, x) ==
    /\ i \in Segments(samples)
    /\ \/ Above(samples, x) /\ i = LastIdx(samples) - 1
       \/ LessEq(x, samples[0].first) /\ i = 0
       \/ Less(samples[i].first, x) /\ LessEq(x, samples[i + 1].first)

\* C8: dCapillaryPressures_dSaturation always sets the wetting entry to 0; it
\* sets the non-wetting entry to the slope of the segment of the capillary
\* pressure table selected for the state's wetting saturation when the axis
\* is the wetting phase, and to 0 for any other axis.
C8_PcDerivativeBySaturation ==
    op = "dCapillaryPressures_dSaturation" =>
        /\ outcome = "returned"
        /\ values[wPhaseIdx] = Zero
        /\ argPhaseIdx = wPhaseIdx =>
              \E i \in Segments(argParams.pcnwSamples) :
                  /\ Selects(argParams.pcnwSamples, i, CallSw)
                  /\ values[nPhaseIdx] = Slope(argParams.pcnwSamples, i)
        /\ argPhaseIdx # wPhaseIdx => values[nPhaseIdx] = Zero

\* C8 witness: the derivative along the non-wetting axis has been taken into
\* a container without zeros for a table whose slope at Sw is not 0.
C8_Witness ==
    /\ op = "dCapillaryPressures_dSaturation"
    /\ argPhaseIdx = nPhaseIdx
    /\ argValues[nPhaseIdx] # Zero
    /\ values[nPhaseIdx] = Zero
    /\ \A i \in Segments(argParams.pcnwSamples) : Slope(argParams.pcnwSamples, i) # Zero

\* the table differentiated by a derivative of the two-phase saturation API
DerivTable == IF op = "twoPhaseSatDPcnw_dSw" THEN argParams.pcnwSamples
              ELSE argParams.krwSamples
InternalKnots(samples) == 1 .. (LastIdx(samples) - 1)

\* C9 as stated: for a query equal to an internal knot x[k] the segment search
\* returns k, and the derivative there is the slope of the segment to the
\* right of the knot.
C9_Original_KnotSelectsRightSegment ==
    \A k \in InternalKnots(DerivTable) :
        op \in {"twoPhaseSatDPcnw_dSw", "twoPhaseSatDKrw_dSw"} /\ argS = DerivTable[k].first =>
            /\ findSegmentIndex_(DerivTable, argS) = k
            /\ outcome = "returned"
            /\ ret = Slope(DerivTable, k)

\* C9 amended: for a table with at least three strictly increasing knots and
\* a query equal to an internal knot x[k], the segment search returns k - 1,
\* the segment whose right end point is x, and the derivative there is the
\* slope of the segment to the left of the knot.
C9_KnotSelectsLeftSegment ==
    \A k \in InternalKnots(DerivTable) :
        op \in {"twoPhaseSatDPcnw_dSw", "twoPhaseSatDKrw_dSw"} /\ argS = DerivTable[k].first =>
            /\ findSegmentIndex_(DerivTable, argS) = k - 1
            /\ outcome = "returned"
            /\ ret = Slope(DerivTable, k - 1)

\* C9 witness: the capillary pressure derivative has been taken at the
\* internal knot of a table whose slopes left and right of it differ.
C9_Witness ==
    /\ op = "twoPhaseSatDPcnw_dSw"
    /\ size(argParams.pcnwSamples) >= 3
    /\ argS = argParams.pcnwSamples[1].first
    /\ Slope(argParams.pcnwSamples, 0) # Slope(argParams.pcnwSamples, 1)
    /\ ret = Slope(argParams.pcnwSamples, 0)

\* a - b is a Scalar, so that the subtraction does not round
ExactDiff(a, b) ==
    LET e == Min(a[2], b[2])
        d == Aligned(a, e) - Aligned(b, e)
    IN  Round(d, e) = Norm(d, e)

\* C10 as stated: the interpolated value at every knot x[k] is y[k] exactly.
C10_Original_KnotValueExact ==
    \A k \in 0 .. LastIdx(KrTable) :
        op \in {"twoPhaseSatKrw", "twoPhaseSatKrn"} /\ argS = KrTable[k].first =>
            outcome = "returned" /\ ret = KrTable[k].second

\* C10 amended: the interpolated value at the first knot is y[0] exactly; at
\* every other knot x[k] it is y[k-1] + (y[k] - y[k-1]) as Scalar arithmetic
\* rounds it, which is y[k] exactly whenever y[k] - y[k-1] is a Scalar.
C10_KnotValue ==
    \A k \in 0 .. LastIdx(KrTable) :
        op \in {"twoPhaseSatKrw", "twoPhaseSatKrn"} /\ argS = KrTable[k].first =>
            /\ outcome = "returned"
            /\ k = 0 => ret = KrTable[0].second
            /\ k >= 1 =>
                  /\ ret = Add(KrTable[k - 1].second,
                               Sub(KrTable[k].second, KrTable[k - 1].second))
                  /\ ExactDiff(KrTable[k].second, KrTable[k - 1].second)
                        => ret = KrTable[k].second

\* C10 witness: twoPhaseSatKrw has been evaluated at the last knot of a table
\* whose last two y-values have a difference that rounds, and has returned a
\* value other than the knot's y.
C10_Witness ==
    /\ op = "twoPhaseSatKrw"
    /\ argS = back(argParams.krwSamples).first
    /\ ~ExactDiff(back(argParams.krwSamples).second,
                  argParams.krwSamples[LastIdx(argParams.krwSamples) - 1].second)
    /\ outcome = "returned"
    /\ ret # back(argParams.krwSamples).second

\* x lies strictly between the knots of segment i
StrictlyInside(samples, i, x) ==
    /\ i \in Segments(samples)
    /\ Less(samples[i].first, x)
    /\ Less(x, samples[i + 1].first)

\* C11: for every x with x[i] < x < x[i+1] the derivative evaluator returns
\* (y[i+1] - y[i]) / (x[i+1] - x[i]), the slope of the segment i that the
\* search selects and that the value evaluator interpolates on for the same
\* x, hence one value for all x of the open segment.
C11_SlopeOfInterpolatedSegment ==
    /\ \A i \in Segments(DerivTable) :
          op \in {"twoPhaseSatDPcnw_dSw", "twoPhaseSatDKrw_dSw"}
            /\ StrictlyInside(DerivTable, i, argS) =>
              /\ outcome = "returned"
              /\ findSegmentIndex_(DerivTable, argS) = i
              /\ ret = Slope(DerivTable, i)
    /\ \A i \in Segments(KrTable) :
          op \in {"twoPhaseSatKrw", "twoPhaseSatKrn"}
            /\ StrictlyInside(KrTable, i, argS) =>
              /\ outcome = "returned"
              /\ findSegmentIndex_(KrTable, argS) = i
              /\ ret = Interp(KrTable, i, argS)

\* C11 witness: the krw derivative has been taken strictly inside the first
\* segment of a table with three knots whose two slopes differ.
C11_Witness ==
    /\ op = "twoPhaseSatDKrw_dSw"
    /\ size(argParams.krwSamples) >= 3
    /\ StrictlyInside(argParams.krwSamples, 0, argS)
    /\ Slope(argParams.krwSamples, 0) # Slope(argParams.krwSamples, 1)
    /\ ret = Slope(argParams.krwSamples, 0)

(***************************************************************************)
(* The evaluator followed statement by statement: a call of an entry point *)
(* that reaches eval_ or evalDeriv_, the two early returns of              *)
(* findSegmentIndex_, the iterations of its bisection loop, and the        *)
(* division by the width of the segment found.  The tables here are the    *)
(* ones with non-decreasing knots, equal neighbours included.              *)
(***************************************************************************)
\* the tables with 2 .. MaxSearchKnots sampling points, non-decreasing in x,
\* the y-value of point i being i
NonDecreasingTables ==
    UNION { { [i \in 0 .. (len - 1) |-> [first |-> Quarter(f[i]), second |-> Norm(i, 0)]] :
                f \in { g \in [0 .. (len - 1) -> XIdx] :
                          \A i, j \in 0 .. (len - 1) : i < j => g[i] <= g[j] } } :
            len \in 2 .. MaxSearchKnots }

\* the entry points that test x against the table's end knots before they
\* evaluate, and the ones that return eval_ rather than evalDeriv_
ClampingCallers == {"twoPhaseSatKrw", "twoPhaseSatKrn", "twoPhaseSatDKrw_dSw"}
ValueCallers == {"twoPhaseSatKrw", "twoPhaseSatKrn"}
SearchCallers == ClampingCallers \cup {"twoPhaseSatPcnw"}

\* if (Sw < samples.front().first) ... else if (Sw > samples.back().first) ...
Clamps(caller, samples, x) ==
    /\ caller \in ClampingCallers
    /\ Less(x, front(samples).first) \/ Greater(x, back(samples).first)

\* the value returned without evaluation
ClampedValue(caller, samples, x) ==
    IF caller \notin ValueCallers THEN Zero
    ELSE IF Less(x, front(samples).first) THEN front(samples).second
    ELSE back(samples).second

\* one iteration of the bisection that makes no step: curIdx = lowIdx
BisectionStep_NoProgress(samples, x, lowIdx, highIdx) ==
    LET curIdx == (lowIdx + lowIdx) \div 2
    IN  IF Less(samples[curIdx].first, x) THEN <<curIdx, highIdx>> ELSE <<lowIdx, curIdx>>

\* one iteration of the bisection: the new <<lowIdx, highIdx>>
BisectionStep(samples, x, lowIdx, highIdx) ==
    LET curIdx == (lowIdx + highIdx) \div 2
    IN  IF Less(samples[curIdx].first, x) THEN <<curIdx, highIdx>> ELSE <<lowIdx, curIdx>>

SearchInit ==
    /\ ndebug \in BOOLEAN
    /\ search = NoSearch
    /\ op = "none"
    /\ argParams = ParamsOf(DefaultSamples, DefaultSamples, DefaultSamples)
    /\ argFs = NoState
    /\ argS = NoValue
    /\ argPhaseIdx = NoIdx
    /\ argCompIdx = NoIdx
    /\ argValues = NoContainer
    /\ values = NoContainer
    /\ ret = NoValue
    /\ outcome = "none"

SearchUnchanged ==
    UNCHANGED <<ndebug, op, argParams, argFs, argS, argPhaseIdx, argCompIdx,
                argValues, values, ret, outcome>>

\* an entry point is called with a table and a saturation
Search_Call ==
    /\ search.pc = "idle"
    /\ \E c \in SearchCallers, t \in NonDecreasingTables, s \in Sats :
          search' = [NoSearch EXCEPT !.pc = "called", !.caller = c, !.samples = t, !.x = s]
    /\ SearchUnchanged

\* the entry point returns the end knot's y, or 0, without evaluating
Search_Clamped ==
    /\ search.pc = "called"
    /\ Clamps(search.caller, search.samples, search.x)
    /\ search' = [search EXCEPT !.pc = "done",
                                !.value = ClampedValue(search.caller, search.samples, search.x),
                                !.outcome = "returned"]
    /\ SearchUnchanged

\* findSegmentIndex_ up to the loop: the two early returns, or lowIdx = 0 and
\* highIdx = n
Search_Enter ==
    /\ search.pc = "called"
    /\ ~Clamps(search.caller, search.samples, search.x)
    /\ LET n == size(search.samples) - 1
       IN  search' =
             IF Less(search.samples[n].first, search.x)
             THEN [search EXCEPT !.pc = "found", !.segIdx = n - 1]
             ELSE IF Greater(search.samples[0].first, search.x)
             THEN [search EXCEPT !.pc = "found", !.segIdx = 0]
             ELSE [search EXCEPT !.pc = "loop", !.lowIdx = 0, !.highIdx = n]
    /\ SearchUnchanged

\* while (lowIdx + 1 < highIdx) { ... }
Search_Iterate ==
    /\ search.pc = "loop"
    /\ search.lowIdx + 1 < search.highIdx
    /\ LET lh == BisectionStep(search.samples, search.x, search.lowIdx, search.highIdx)
       IN  search' = [search EXCEPT !.lowIdx = lh[1], !.highIdx = lh[2]]
    /\ SearchUnchanged

\* return lowIdx;
Search_Return ==
    /\ search.pc = "loop"
    /\ ~(search.lowIdx + 1 < search.highIdx)
    /\ search' = [search EXCEPT !.pc = "found", !.segIdx = search.lowIdx]
    /\ SearchUnchanged

\* return eval_(samples, x) or return evalDeriv_(samples, x)
Evaluated(caller, samples, x) ==
    IF caller \in ValueCallers THEN eval_(samples, x) ELSE evalDeriv_(samples, x)

\* eval_ or evalDeriv_ with the segment found
Search_Evaluate ==
    /\ search.pc = "found"
    /\ search' = [search EXCEPT !.pc = "done",
                                !.value = Evaluated(search.caller, search.samples, search.x).value,
                                !.outcome = Evaluated(search.caller, search.samples, search.x).outcome]
    /\ SearchUnchanged

\* the caller takes the result
Search_Resume ==
    /\ search.pc = "done"
    /\ search.outcome # "assertion_failed"
    /\ search' = NoSearch
    /\ SearchUnchanged

SearchNext ==
    \/ Search_Call
    \/ Search_Clamped
    \/ Search_Enter
    \/ Search_Iterate
    \/ Search_Return
    \/ Search_Evaluate
    \/ Search_Resume

\* the code is sequential: a search that has been entered keeps executing
\* the statements of findSegmentIndex_
SearchSpec ==
    SearchInit /\ [][SearchNext]_vars /\ WF_vars(Search_Enter \/ Search_Iterate \/ Search_Return)

(***************************************************************************)
(* Claims about the search and the division, on the followed evaluation.   *)
(***************************************************************************)
\* two neighbouring knots of the table share their x
HasEqualNeighbours(samples) ==
    \E i \in Segments(samples) : samples[i].first = samples[i + 1].first

\* the search of the followed evaluation has returned
SearchReturned == search.pc \in {"found", "done"} /\ search.segIdx # NoIdx

\* C12: for every table of at least two knots with non-decreasing x and
\* every x, the index i that findSegmentIndex_ returns lies in 0 .. n - 1;
\* it is 0 for x below the first knot and n - 1 for x above the last one;
\* for x within the table x[i] <= x <= x[i+1], so that the assertions of
\* eval_ hold and no evaluation ends in a failed assertion.
C12_SearchReturnsBracketingSegment ==
    /\ SearchReturned =>
          LET t == search.samples
              i == search.segIdx
          IN  /\ i = findSegmentIndex_(t, search.x)
              /\ i \in Segments(t)
              /\ Below(t, search.x) => i = 0
              /\ Above(t, search.x) => i = LastIdx(t) - 1
              /\ Inside(t, search.x) => Brackets(t, i, search.x)
              /\ evalAsserts_(t, search.x)
    /\ search.pc = "done" => search.outcome = "returned"

\* a bisection over a table with two equal knots, of more than one iteration,
\* has returned a segment for an x within the table
C12_Witness ==
    /\ search.pc = "found"
    /\ HasEqualNeighbours(search.samples)
    /\ Inside(search.samples, search.x)
    /\ search.highIdx = search.lowIdx + 1
    /\ LastIdx(search.samples) >= 4
    /\ Brackets(search.samples, search.segIdx, search.x)

\* the bisection loop is being executed
InLoop == search.pc = "loop"

\* 0 <= lowIdx < highIdx <= n
LoopBounds ==
    /\ 0 <= search.lowIdx
    /\ search.lowIdx < search.highIdx
    /\ search.highIdx <= LastIdx(search.samples)

\* C13: the bisection loop of findSegmentIndex_ terminates: while it runs
\* 0 <= lowIdx < highIdx <= n, each iteration strictly decreases
\* highIdx - lowIdx, the loop is left with highIdx = lowIdx + 1 and lowIdx is
\* what the recursive reading of the loop returns, and every loop that is
\* entered is left.
C13_BisectionTerminates ==
    /\ [](InLoop => LoopBounds)
    /\ [][InLoop /\ search'.pc = "loop"
            => search'.highIdx - search'.lowIdx < search.highIdx - search.lowIdx]_vars
    /\ [][InLoop /\ search'.pc = "found"
            => /\ search.highIdx = search.lowIdx + 1
               /\ search'.segIdx = search.lowIdx
               /\ search'.segIdx =
                     Bisection(search.samples, search.x, 0, LastIdx(search.samples))]_vars
    /\ InLoop ~> (search.pc = "found")

\* the loop has moved both lowIdx and highIdx and is about to be left
C13_Witness ==
    /\ InLoop
    /\ search.lowIdx > 0
    /\ search.highIdx < LastIdx(search.samples)
    /\ search.highIdx = search.lowIdx + 1

\* the Sample Table invariant: at least two points, x non-decreasing, equal
\* neighbours only in the first and in the last segment
SampleTableInvariant(samples) ==
    /\ size(samples) >= 2
    /\ \A i \in Segments(samples) : LessEq(samples[i].first, samples[i + 1].first)
    /\ \A i \in Segments(samples) :
          samples[i].first = samples[i + 1].first => i = 0 \/ i = LastIdx(samples) - 1

\* x[segIdx + 1] - x[segIdx], the divisor of eval_ and evalDeriv_
SegmentWidth(samples, segIdx) == Sub(samples[segIdx + 1].first, samples[segIdx].first)

\* C14: for every table that satisfies the Sample Table invariant and every
\* x, the segment that findSegmentIndex_ selects and eval_ / evalDeriv_
\* divide by has a width other than zero, so that no evaluation reached
\* through the entry points divides by zero.
C14_NoDivisionByZero ==
    (search.pc = "done" /\ search.segIdx # NoIdx /\ SampleTableInvariant(search.samples))
        => /\ SegmentWidth(search.samples, search.segIdx) # Zero
           /\ ~IsNaN(search.value)

====
